---- MODULE Spec2Model ----
(***************************************************************************)
(* Model of migrate-parameter-store (src/main.go): a sequential script     *)
(* that builds the old-name -> new-name map for an environment and copies  *)
(* every parameter of the map from its old name to its new name in the     *)
(* parameter store (Get, Describe, Put), stopping at the first error.      *)
(*                                                                         *)
(* Go pointers (to string, bool, types.Parameter) are sequences of length *)
(* at most one: <<>> is nil and <<x>> points to x.  A Go error is the same *)
(* way: <<>> is nil and <<msg>> is an error with message msg.              *)
(***************************************************************************)
EXTENDS Integers, Sequences, FiniteSets, TLC

VARIABLES
    environemnt,        \* main: the environment label (line 141)
    profile,            \* main: the credential profile (lines 142-146)
    serverlessParams,   \* generateVariableNameMap: the identifier list (lines 77-79)
    client,             \* main: the store client, <<>> until connected
    oldToNewEnvName,    \* main: the map old name -> new name (line 159)
    visited,            \* main: keys the range loop has already yielded (line 161)
    oldEnvName,         \* main: the loop's current key, <<>> outside the loop
    newEnName,          \* main: the loop's current value
    sourceParam,        \* copyParameter: result of getParameterDetails
    description,        \* copyParameter: result of getParameterDescription
    err,                \* the error copyParameter returned to main
    pc,                 \* the position of the single thread of control
    exitStatus,         \* <<>> while running, <<0>> or <<1>> once the process ended
    fatalMsg,           \* what log.Fatalf printed, <<>> if nothing
    store,              \* the remote parameter store: name -> entry or NoParam
    calls,              \* the store calls this run has issued, in order
    run,                \* number of the current run of the program
    migrated,           \* old names whose Put was acknowledged in an earlier run
    storeAtStart,       \* the store as it was when the current run started
    storeAtPair,        \* the store as it was when the current pair was entered
    prevMap             \* the map the previous run generated, <<>> in the first run

vars == <<environemnt, profile, serverlessParams, client, oldToNewEnvName, visited,
          oldEnvName, newEnName, sourceParam, description, err, pc, exitStatus,
          fatalMsg, store, calls, run, migrated, storeAtStart, storeAtPair, prevMap>>

--------------------------------------------------------------------------
(* Bounds of the model *)

\* How many times the program is run against the same store.
MaxRuns == 2

--------------------------------------------------------------------------
(* Pointers and errors *)

Nil == <<>>
Ptr(x) == <<x>>
Deref(p) == p[1]

\* aws.String: a pointer to the given string.
AwsString(s) == Ptr(s)

\* aws.ToString: the string pointed to, "" for a nil pointer.
AwsToString(p) == IF p = Nil THEN "" ELSE Deref(p)

--------------------------------------------------------------------------
(* The inputs the model ranges over *)

\* The labels main's comment names for the hard-coded environment.
Environments == {"staging", "production", "beta"}

\* The identifiers of generateVariableNameMap: the active list is the
\* one-element list <<"REDISCLOUD_URL">>; the commented-out list it is meant
\* to grow into starts with the same identifier.  The model runs the program
\* with each prefix of this list, the active list being the shortest.
ParamCandidates == <<"REDISCLOUD_URL", "REDIS_ENABLED_TLS">>

ParamLists == {SubSeq(ParamCandidates, 1, n) : n \in 1..Len(ParamCandidates)}

\* types.ParameterType
ParameterTypes == {"String", "SecureString", "StringList"}

Values == {"redis://x", "a,b"}

\* A description is optional in the store: nil or a pointer to a string.
Descriptions == {Nil, Ptr("cache url")}

NoParam == [Value |-> "", Type |-> "<none>", Description |-> Nil]

Entries == [Value : Values, Type : ParameterTypes, Description : Descriptions]

--------------------------------------------------------------------------
(* Name Mapper *)

generateOldVariableName(environment, variableName) ==
    "/asset-accounting/" \o environment \o "/" \o variableName

\* generateNewVariableName formatting with the old template.
generateNewVariableName_OldTemplate(environment, variableName) ==
    "/asset-accounting/" \o environment \o "/" \o variableName

generateNewVariableName(environment, variableName) ==
    "/asset-accounting/serviceplatform/" \o environment \o "/" \o variableName

\* The loop of generateVariableNameMap over params[1..n]: each iteration
\* assigns variableNameMap[oldName] = newName, a later assignment to the
\* same key replacing an earlier one.
RECURSIVE VariableNameMapLoop(_, _, _)
VariableNameMapLoop(environment, params, n) ==
    IF n = 0 THEN [k \in {} |-> ""]
    ELSE LET oldName == generateOldVariableName(environment, params[n])
             newName == generateNewVariableName(environment, params[n])
         IN  (oldName :> newName) @@ VariableNameMapLoop(environment, params, n - 1)

generateVariableNameMap(environment, params) ==
    VariableNameMapLoop(environment, params, Len(params))

\* Every name the store of the model holds an entry (or NoParam) for: the
\* old and the new name of every candidate identifier in the environment.
StoreNames(environment) ==
    {generateOldVariableName(environment, ParamCandidates[i]) : i \in 1..Len(ParamCandidates)}
    \cup {generateNewVariableName(environment, ParamCandidates[i]) : i \in 1..Len(ParamCandidates)}

OldNames(environment) ==
    {generateOldVariableName(environment, ParamCandidates[i]) : i \in 1..Len(ParamCandidates)}

--------------------------------------------------------------------------
(* The store client: what each call can answer *)

\* client.GetParameter with WithDecryption: the parameter, a not-found
\* error when the store has no such name, or a transport error.
GetParameterResults(name) ==
    {[err |-> Ptr("TransportError"), Parameter |-> Nil]}
    \cup (IF store[name] = NoParam
          THEN {[err |-> Ptr("ParameterNotFound"), Parameter |-> Nil]}
          ELSE {[err |-> Nil,
                 Parameter |-> Ptr([Name |-> Ptr(name),
                                    Value |-> Ptr(store[name].Value),
                                    Type |-> store[name].Type])]})

\* client.DescribeParameters filtered by exact name: a transport error, or
\* one page of matches.  The page holds the match if the name exists, and
\* may hold no match at all (the listing returns between zero and
\* MaxResults items of a page).
DescribeParametersResults(name) ==
    {[err |-> Ptr("TransportError"), Parameters |-> <<>>],
     [err |-> Nil, Parameters |-> <<>>]}
    \cup (IF store[name] = NoParam
          THEN {}
          ELSE {[err |-> Nil,
                 Parameters |-> <<[Name |-> Ptr(name),
                                   Type |-> store[name].Type,
                                   Description |-> store[name].Description]>>]})

\* client.PutParameter: acknowledged, or rejected by the store (overwrite
\* protection, permission, transport); a rejected Put changes nothing.
PutParameterResults == {Nil, Ptr("PutRejected")}

\* The entry an acknowledged Put leaves in the store.
StoreAfterPut(input) ==
    [store EXCEPT ![Deref(input.Name)] =
        [Value |-> Deref(input.Value),
         Type |-> input.Type,
         Description |-> input.Description]]

--------------------------------------------------------------------------
(* The program *)

\* putParameter addressing the name of the parameter it was handed (the
\* source) instead of the name it was given.
PutParameterInput_SourceName(name, desc, dest) ==
    [Name |-> dest.Name,
     Value |-> AwsString(Deref(dest.Value)),
     Type |-> dest.Type,
     Description |-> AwsString(desc),
     Overwrite |-> Nil]

\* putParameter with the type left at the plain string type.
PutParameterInput_PlainType(name, desc, dest) ==
    [Name |-> AwsString(name),
     Value |-> AwsString(Deref(dest.Value)),
     Type |-> "String",
     Description |-> AwsString(desc),
     Overwrite |-> Nil]

\* putParameter: the request it builds.  The Overwrite field is not set.
PutParameterInput(name, desc, dest) ==
    [Name |-> AwsString(name),
     Value |-> AwsString(Deref(dest.Value)),
     Type |-> dest.Type,
     Description |-> AwsString(desc),
     Overwrite |-> Nil]

\* A record of one store call of the run: the operation, the pair being
\* processed (its old name), the name the call addressed, the request of a
\* Put, and the store's answer.
Call(op, pair, name, input, result) ==
    [op |-> op, pair |-> pair, name |-> name, input |-> input, result |-> result]

NoInput == [Name |-> Nil, Value |-> Nil, Type |-> "", Description |-> Nil, Overwrite |-> Nil]

\* main, lines 141-146: the profile of an environment.
ProfileOf(environment) ==
    IF environment = "production" THEN "aa_prod" ELSE "aa_stg"

Init ==
    /\ environemnt \in Environments
    /\ profile = ProfileOf(environemnt)
    /\ serverlessParams \in ParamLists
    /\ client = Nil
    /\ oldToNewEnvName = [k \in {} |-> ""]
    /\ visited = {}
    /\ oldEnvName = Nil
    /\ newEnName = Nil
    /\ sourceParam = Nil
    /\ description = ""
    /\ err = Nil
    /\ pc = "connect"
    /\ exitStatus = Nil
    /\ fatalMsg = Nil
    /\ store \in {s \in [StoreNames(environemnt) -> Entries \cup {NoParam}] :
                    \A n \in DOMAIN s : n \notin OldNames(environemnt) => s[n] = NoParam}
    /\ calls = <<>>
    /\ run = 1
    /\ migrated = {}
    /\ storeAtStart = store
    /\ storeAtPair = store
    /\ prevMap = Nil

\* Printing the message and ending the process normally.
Fatalf_ExitZero(msg) ==
    /\ fatalMsg' = Ptr(msg)
    /\ exitStatus' = Ptr(0)
    /\ pc' = "done"

\* log.Fatalf: print the message and exit with status 1.
Fatalf(msg) ==
    /\ fatalMsg' = Ptr(msg)
    /\ exitStatus' = Ptr(1)
    /\ pc' = "done"

\* main printing the connection error and going on without a client.
ConnectFail_Continue ==
    /\ pc = "connect"
    /\ fatalMsg' = Ptr("failed to connect to AWS, unable to load SDK config, ConfigLoadError")
    /\ oldToNewEnvName' = generateVariableNameMap(environemnt, serverlessParams)
    /\ pc' = "range"
    /\ UNCHANGED <<environemnt, profile, serverlessParams, client, visited, oldEnvName,
                   newEnName, sourceParam, description, err, exitStatus, store, calls,
                   run, migrated, storeAtStart, storeAtPair, prevMap>>

\* main, lines 148-151: connectToAWSByProfile failed.
ConnectFail ==
    /\ pc = "connect"
    /\ Fatalf("failed to connect to AWS, unable to load SDK config, ConfigLoadError")
    /\ UNCHANGED <<environemnt, profile, serverlessParams, client, oldToNewEnvName,
                   visited, oldEnvName, newEnName, sourceParam, description, err,
                   store, calls, run, migrated, storeAtStart, storeAtPair, prevMap>>

\* main, lines 148-159: connectToAWSByProfile succeeded; the map is built.
ConnectOk ==
    /\ pc = "connect"
    /\ client' = Ptr(profile)
    /\ oldToNewEnvName' = generateVariableNameMap(environemnt, serverlessParams)
    /\ pc' = "range"
    /\ UNCHANGED <<environemnt, profile, serverlessParams, visited, oldEnvName,
                   newEnName, sourceParam, description, err, exitStatus, fatalMsg,
                   store, calls, run, migrated, storeAtStart, storeAtPair, prevMap>>

\* The range loop looking the destination up first and passing over a pair
\* whose destination is already in the store.
MainRangeNext_SkipExisting ==
    /\ pc = "range"
    /\ \E k \in DOMAIN oldToNewEnvName \ visited :
          /\ visited' = visited \cup {k}
          /\ IF store[oldToNewEnvName[k]] # NoParam
             THEN /\ calls' = Append(calls, Call("Get", k, oldToNewEnvName[k], NoInput,
                                                [err |-> Nil, Parameter |-> Nil]))
                  /\ UNCHANGED <<oldEnvName, newEnName, pc>>
             ELSE /\ oldEnvName' = Ptr(k)
                  /\ newEnName' = Ptr(oldToNewEnvName[k])
                  /\ pc' = "getParameterDetails"
                  /\ UNCHANGED calls
    /\ sourceParam' = Nil
    /\ description' = ""
    /\ err' = Nil
    /\ storeAtPair' = store
    /\ UNCHANGED <<environemnt, profile, serverlessParams, client, oldToNewEnvName,
                   exitStatus, fatalMsg, store, run, migrated, storeAtStart, prevMap>>

\* main, line 161: the range loop yields a key it has not yielded yet, in
\* no particular order (Go map iteration), and copyParameter is entered.
MainRangeNext ==
    /\ pc = "range"
    /\ \E k \in DOMAIN oldToNewEnvName \ visited :
          /\ oldEnvName' = Ptr(k)
          /\ newEnName' = Ptr(oldToNewEnvName[k])
          /\ visited' = visited \cup {k}
    /\ sourceParam' = Nil
    /\ description' = ""
    /\ err' = Nil
    /\ pc' = "getParameterDetails"
    /\ storeAtPair' = store
    /\ UNCHANGED <<environemnt, profile, serverlessParams, client, oldToNewEnvName,
                   exitStatus, fatalMsg, store, calls, run, migrated, storeAtStart,
                   prevMap>>

\* main, lines 161-174: the loop is exhausted and main falls off its end.
MainExit ==
    /\ pc = "range"
    /\ visited = DOMAIN oldToNewEnvName
    /\ exitStatus' = Ptr(0)
    /\ pc' = "done"
    /\ oldEnvName' = Nil
    /\ newEnName' = Nil
    /\ UNCHANGED <<environemnt, profile, serverlessParams, client, oldToNewEnvName,
                   visited, sourceParam, description, err, fatalMsg, store, calls,
                   run, migrated, storeAtStart, storeAtPair, prevMap>>

\* copyParameter going on after a failed getParameterDetails.
GetFailed_Never(r) == FALSE

\* copyParameter, line 123: the test of getParameterDetails's error.
GetFailed(r) == r.err # Nil

\* copyParameter, lines 122-125, with getParameterDetails (lines 29-40).
CopyGet ==
    /\ pc = "getParameterDetails"
    /\ \E r \in GetParameterResults(Deref(oldEnvName)) :
          /\ calls' = Append(calls, Call("Get", Deref(oldEnvName), Deref(oldEnvName),
                                         NoInput, r))
          /\ IF GetFailed(r)
             THEN /\ err' = Ptr("failed to get source parameter details: " \o Deref(r.err))
                  /\ pc' = "checkErr"
                  /\ UNCHANGED sourceParam
             ELSE /\ sourceParam' = r.Parameter
                  /\ pc' = "getParameterDescription"
                  /\ UNCHANGED err
    /\ UNCHANGED <<environemnt, profile, serverlessParams, client, oldToNewEnvName,
                   visited, oldEnvName, newEnName, description, exitStatus, fatalMsg,
                   store, run, migrated, storeAtStart, storeAtPair, prevMap>>

\* getParameterDescription without the test for an empty listing.
getParameterDescription_NoEmptyCheck(r) ==
    IF r.err # Nil THEN [err |-> r.err, description |-> ""]
    ELSE IF Len(r.Parameters) = 0
         THEN [err |-> Nil, description |-> ""]
         ELSE [err |-> Nil, description |-> AwsToString(r.Parameters[1].Description)]

\* getParameterDescription, lines 90-107: the error and the string it returns.
getParameterDescription(r) ==
    IF r.err # Nil THEN [err |-> r.err, description |-> ""]
    ELSE IF Len(r.Parameters) = 0
         THEN [err |-> Ptr("parameter not found"), description |-> ""]
         ELSE [err |-> Nil, description |-> AwsToString(r.Parameters[1].Description)]

\* copyParameter, line 126: the name whose description is looked up.
DescribeTarget == Deref(oldEnvName)

\* copyParameter, lines 126-129.
CopyDescribe ==
    /\ pc = "getParameterDescription"
    /\ \E r \in DescribeParametersResults(DescribeTarget) :
          LET d == getParameterDescription(r) IN
          /\ calls' = Append(calls, Call("Describe", Deref(oldEnvName), DescribeTarget,
                                         NoInput, r))
          /\ IF d.err # Nil
             THEN /\ err' = Ptr("failed to get source parameter description: " \o Deref(d.err))
                  /\ pc' = "checkErr"
                  /\ UNCHANGED description
             ELSE /\ description' = d.description
                  /\ pc' = "putParameter"
                  /\ UNCHANGED err
    /\ UNCHANGED <<environemnt, profile, serverlessParams, client, oldToNewEnvName,
                   visited, oldEnvName, newEnName, sourceParam, exitStatus, fatalMsg,
                   store, run, migrated, storeAtStart, storeAtPair, prevMap>>

\* copyParameter, lines 132-137, with putParameter (lines 109-118).
CopyPut ==
    /\ pc = "putParameter"
    /\ LET input == PutParameterInput(Deref(newEnName), description, Deref(sourceParam)) IN
       \E e \in PutParameterResults :
          /\ calls' = Append(calls, Call("Put", Deref(oldEnvName), Deref(input.Name),
                                         input, [err |-> e]))
          /\ IF e # Nil
             THEN /\ err' = Ptr("failed to put destination parameter: " \o Deref(e))
                  /\ UNCHANGED store
             ELSE /\ err' = Nil
                  /\ store' = StoreAfterPut(input)
    /\ pc' = "checkErr"
    /\ UNCHANGED <<environemnt, profile, serverlessParams, client, oldToNewEnvName,
                   visited, oldEnvName, newEnName, sourceParam, description, exitStatus,
                   fatalMsg, run, migrated, storeAtStart, storeAtPair, prevMap>>

\* main trying the pair again when copyParameter returned an error.
MainCheckErr_Retry ==
    /\ pc = "checkErr"
    /\ pc' = IF err # Nil THEN "getParameterDetails" ELSE "range"
    /\ UNCHANGED <<environemnt, profile, serverlessParams, client, oldToNewEnvName,
                   visited, oldEnvName, newEnName, sourceParam, description, err,
                   exitStatus, fatalMsg, store, calls, run, migrated, storeAtStart,
                   storeAtPair, prevMap>>

\* main printing the error of copyParameter and going on with the loop.
MainCheckErr_Continue ==
    /\ pc = "checkErr"
    /\ pc' = "range"
    /\ fatalMsg' = IF err # Nil THEN Ptr("failed to copy parameter, " \o Deref(err)) ELSE fatalMsg
    /\ UNCHANGED <<environemnt, profile, serverlessParams, client, oldToNewEnvName,
                   visited, oldEnvName, newEnName, sourceParam, description, err,
                   exitStatus, store, calls, run, migrated, storeAtStart, storeAtPair,
                   prevMap>>

\* main, lines 169-172: copyParameter returned; an error is fatal.
MainCheckErr ==
    /\ pc = "checkErr"
    /\ IF err # Nil
       THEN Fatalf("failed to copy parameter, " \o Deref(err))
       ELSE /\ pc' = "range"
            /\ UNCHANGED <<exitStatus, fatalMsg>>
    /\ UNCHANGED <<environemnt, profile, serverlessParams, client, oldToNewEnvName,
                   visited, oldEnvName, newEnName, sourceParam, description, err,
                   store, calls, run, migrated, storeAtStart, storeAtPair, prevMap>>

\* The pairs whose Put the current run has had acknowledged.
PutAcked ==
    {calls[i].pair : i \in {j \in 1..Len(calls) : calls[j].op = "Put" /\ calls[j].result.err = Nil}}

\* The operator runs the program again, against the store as the earlier
\* run left it: a fresh process with the same build-time configuration.
Rerun ==
    /\ pc = "done"
    /\ run < MaxRuns
    /\ run' = run + 1
    /\ migrated' = migrated \cup PutAcked
    /\ storeAtStart' = store
    /\ storeAtPair' = store
    /\ prevMap' = IF client = Nil THEN Nil ELSE Ptr(oldToNewEnvName)
    /\ client' = Nil
    /\ oldToNewEnvName' = [k \in {} |-> ""]
    /\ visited' = {}
    /\ oldEnvName' = Nil
    /\ newEnName' = Nil
    /\ sourceParam' = Nil
    /\ description' = ""
    /\ err' = Nil
    /\ pc' = "connect"
    /\ exitStatus' = Nil
    /\ fatalMsg' = Nil
    /\ calls' = <<>>
    /\ UNCHANGED <<environemnt, profile, serverlessParams, store>>

\* One step of the running program.
Step ==
    \/ ConnectFail
    \/ ConnectOk
    \/ MainRangeNext
    \/ MainExit
    \/ CopyGet
    \/ CopyDescribe
    \/ CopyPut
    \/ MainCheckErr

Next == Step \/ Rerun

Spec == Init /\ [][Next]_vars

\* The program is a single thread that is never blocked: a step that is
\* enabled is eventually taken.  Running the program again is up to the
\* operator and is not forced.
LiveSpec == Spec /\ WF_vars(Step)

--------------------------------------------------------------------------
(* What the properties observe of a store call *)

IsGet(c) == c.op = "Get"
IsDescribe(c) == c.op = "Describe"
IsPut(c) == c.op = "Put"

\* The store answered the Get with a parameter.
GetSucceeded(c) == IsGet(c) /\ c.result.err = Nil

\* The store answered the Describe with a listing that holds a match.
DescribeSucceeded(c) ==
    IsDescribe(c) /\ c.result.err = Nil /\ Len(c.result.Parameters) > 0

\* The store acknowledged the Put.
PutSucceeded(c) == IsPut(c) /\ c.result.err = Nil

CallFailed(c) == ~GetSucceeded(c) /\ ~DescribeSucceeded(c) /\ ~PutSucceeded(c)

CallIndices == 1..Len(calls)

--------------------------------------------------------------------------
(* Properties *)

\* C1: every Put the run has issued was addressed to the new name of its
\* pair and carried the value and the type the Get on the old name returned
\* and the description the Describe on the old name returned (the empty
\* string for a parameter without description); after an acknowledged Put
\* the destination holds exactly that value, type and description, so the
\* type written is the source's type.
C1_PutCarriesSource ==
    \A i \in CallIndices :
        IsPut(calls[i]) =>
            /\ i >= 3
            /\ LET g == calls[i - 2]
                   d == calls[i - 1]
                   p == calls[i]
               IN  /\ GetSucceeded(g) /\ g.name = p.pair
                   /\ DescribeSucceeded(d) /\ d.name = p.pair
                   /\ p.name = oldToNewEnvName[p.pair]
                   /\ p.input.Name = Ptr(oldToNewEnvName[p.pair])
                   /\ p.input.Value = Deref(g.result.Parameter).Value
                   /\ p.input.Type = Deref(g.result.Parameter).Type
                   /\ p.input.Type = storeAtStart[p.pair].Type
                   /\ Deref(p.input.Value) = storeAtStart[p.pair].Value
                   /\ IF d.result.Parameters[1].Description = Nil
                      THEN p.input.Description = Ptr("")
                      ELSE p.input.Description = d.result.Parameters[1].Description
                   /\ PutSucceeded(p) =>
                        /\ store[p.name].Value = storeAtStart[p.pair].Value
                        /\ store[p.name].Type = storeAtStart[p.pair].Type
                        /\ store[p.name].Description = p.input.Description

\* C1 witness: a secure parameter with a description has been copied.
C1_Witness ==
    \E i \in CallIndices :
        /\ PutSucceeded(calls[i])
        /\ storeAtStart[calls[i].pair] =
              [Value |-> "redis://x", Type |-> "SecureString", Description |-> Ptr("cache url")]
        /\ store[calls[i].name] =
              [Value |-> "redis://x", Type |-> "SecureString", Description |-> Ptr("cache url")]
        /\ pc = "done" /\ exitStatus = Ptr(0)

\* C2: a Get answered not-found is the last call of the run: no Describe
\* and no Put follow for that pair, the store is as it was when the pair
\* was entered, and the run ends with status 1 naming the not-found error
\* of the source.
C2_SourceNotFoundAborts ==
    \A i \in CallIndices :
        (IsGet(calls[i]) /\ calls[i].result.err = Ptr("ParameterNotFound")) =>
            /\ i = Len(calls)
            /\ \A j \in CallIndices : calls[j].pair = calls[i].pair => j = i
            /\ store = storeAtPair
            /\ pc \in {"checkErr", "done"}
            /\ pc = "checkErr" =>
                 err = Ptr("failed to get source parameter details: ParameterNotFound")
            /\ pc = "done" =>
                 /\ exitStatus = Ptr(1)
                 /\ fatalMsg = Ptr("failed to copy parameter, failed to get source parameter details: ParameterNotFound")

\* C2 witness: the run has ended on a not-found source.
C2_Witness ==
    /\ pc = "done"
    /\ Len(calls) >= 1
    /\ IsGet(calls[Len(calls)])
    /\ calls[Len(calls)].result.err = Ptr("ParameterNotFound")
    /\ store[calls[Len(calls)].name] = NoParam

\* C3: a Describe answered with an empty listing is the last call of the
\* run: no Put follows, the store is unchanged and the run ends with
\* status 1 naming the missing description; and every Put of the run comes
\* directly after a successful Get and a successful Describe of its pair.
C3_DescriptionNotFoundAborts ==
    /\ \A i \in CallIndices :
          (IsDescribe(calls[i]) /\ calls[i].result.err = Nil
                                /\ Len(calls[i].result.Parameters) = 0) =>
              /\ i = Len(calls)
              /\ \A j \in CallIndices : calls[j].pair = calls[i].pair => ~IsPut(calls[j])
              /\ store = storeAtPair
              /\ pc \in {"checkErr", "done"}
              /\ pc = "done" =>
                   /\ exitStatus = Ptr(1)
                   /\ fatalMsg = Ptr("failed to copy parameter, failed to get source parameter description: parameter not found")
    /\ \A i \in CallIndices :
          IsPut(calls[i]) =>
              \E g, d \in 1..(i - 1) :
                  /\ g < d
                  /\ GetSucceeded(calls[g]) /\ calls[g].pair = calls[i].pair
                  /\ DescribeSucceeded(calls[d]) /\ calls[d].pair = calls[i].pair

\* C3 witness: the run has ended on an empty listing for a parameter the
\* Get had returned.
C3_Witness ==
    /\ pc = "done"
    /\ Len(calls) >= 2
    /\ GetSucceeded(calls[Len(calls) - 1])
    /\ IsDescribe(calls[Len(calls)])
    /\ calls[Len(calls)].result.err = Nil
    /\ Len(calls[Len(calls)].result.Parameters) = 0

\* C4: a store call that failed is the last store call of the run: no Get,
\* Describe or Put is issued after it, for its pair or for any other, the
\* loop yields no further pair, and the run ends with status 1.
C4_FailFast ==
    \A i \in CallIndices :
        CallFailed(calls[i]) =>
            /\ i = Len(calls)
            /\ pc \in {"checkErr", "done"}
            /\ oldEnvName = Ptr(calls[i].pair)
            /\ \A k \in DOMAIN oldToNewEnvName \ visited :
                  \A j \in CallIndices : calls[j].pair # k
            /\ pc = "done" => exitStatus = Ptr(1)

\* C4 witness: the run has ended on a failure of the first pair it
\* processed while another pair of the map was still to be processed.
C4_Witness ==
    /\ pc = "done"
    /\ Len(calls) >= 1
    /\ CallFailed(calls[Len(calls)])
    /\ Cardinality(visited) = 1
    /\ Cardinality(DOMAIN oldToNewEnvName) = 2

\* The identifiers of the list, and the names the two templates give them,
\* written out independently of the Name Mapper.
Identifiers == {serverlessParams[i] : i \in 1..Len(serverlessParams)}
NameSuffix(v) == "/" \o environemnt \o "/" \o v
ExpectedOld(v) == "/asset-accounting" \o NameSuffix(v)
ExpectedNew(v) == "/asset-accounting/serviceplatform" \o NameSuffix(v)

\* C5: the map generateVariableNameMap builds is exactly the set of pairs
\* (/asset-accounting/E/v, /asset-accounting/serviceplatform/E/v), one for
\* each identifier v of the list, the two names of a pair sharing the
\* suffix /E/v; and a later run with the same E builds the same map.
C5_MapIsExactlyThePairs ==
    client # Nil =>
        /\ {<<k, oldToNewEnvName[k]>> : k \in DOMAIN oldToNewEnvName}
              = {<<ExpectedOld(v), ExpectedNew(v)>> : v \in Identifiers}
        /\ Cardinality(DOMAIN oldToNewEnvName) = Len(serverlessParams)
        /\ prevMap # Nil =>
              {<<k, Deref(prevMap)[k]>> : k \in DOMAIN Deref(prevMap)}
                 = {<<k, oldToNewEnvName[k]>> : k \in DOMAIN oldToNewEnvName}

\* C5 witness: a second run has built the map of two identifiers for the
\* production environment after a first run had built it.
C5_Witness ==
    /\ run = 2
    /\ client # Nil
    /\ prevMap # Nil
    /\ environemnt = "production"
    /\ Len(serverlessParams) = 2
    /\ oldToNewEnvName["/asset-accounting/production/REDIS_ENABLED_TLS"]
          = "/asset-accounting/serviceplatform/production/REDIS_ENABLED_TLS"

\* Every identifier of the list has had its Get, Describe and Put succeed
\* in this run.
AllPairsSucceeded ==
    \A v \in Identifiers :
        \E g, d, p \in CallIndices :
            /\ GetSucceeded(calls[g]) /\ calls[g].name = ExpectedOld(v)
            /\ DescribeSucceeded(calls[d]) /\ calls[d].name = ExpectedOld(v)
            /\ PutSucceeded(calls[p]) /\ calls[p].name = ExpectedNew(v)

\* C6: every run ends; a run that has not ended has no exit status; a run
\* that has ended has status 0 or 1, and status 0 exactly when the Get,
\* the Describe and the Put of every pair succeeded; and the step after a
\* failed store call ends the run with status 1.
C6_TerminatesWithStatus ==
    /\ (pc # "done") ~> (pc = "done")
    /\ [](pc # "done" => exitStatus = Nil)
    /\ [](pc = "done" =>
            /\ exitStatus \in {Ptr(0), Ptr(1)}
            /\ exitStatus = Ptr(0) <=> AllPairsSucceeded)
    /\ [][(Len(calls) >= 1 /\ CallFailed(calls[Len(calls)]) /\ pc # "done")
            => (pc' = "done" /\ exitStatus' = Ptr(1))]_vars

\* C6 witness: a run over two pairs has ended with status 0.
C6_Witness ==
    /\ pc = "done"
    /\ exitStatus = Ptr(0)
    /\ Len(serverlessParams) = 2
    /\ AllPairsSucceeded

\* C7: when the connection could not be made the run is over with status
\* 1: no map was built, the loop yielded nothing, no store call was issued
\* and the store is as the run found it.
C7_ConfigLoadErrorAborts ==
    (client = Nil /\ pc # "connect") =>
        /\ pc = "done"
        /\ exitStatus = Ptr(1)
        /\ fatalMsg = Ptr("failed to connect to AWS, unable to load SDK config, ConfigLoadError")
        /\ DOMAIN oldToNewEnvName = {}
        /\ visited = {}
        /\ calls = <<>>
        /\ store = storeAtStart

\* C7 witness: a run has ended on the connection error although a source
\* parameter was there to copy.
C7_Witness ==
    /\ client = Nil
    /\ pc = "done"
    /\ store[ExpectedOld("REDISCLOUD_URL")] # NoParam

\* C8: the calls of a run are, pair after pair, a prefix of (Get old name,
\* Describe old name, Put new name): a Get is the first call of its pair, a
\* Describe comes directly after the Get of its pair and a Put directly
\* after the Describe of its pair, so no call is issued twice and the calls
\* of two pairs do not interleave.
C8_CallOrder ==
    \A i \in CallIndices :
        LET c == calls[i] IN
        /\ c.pair \in DOMAIN oldToNewEnvName
        /\ IsGet(c) \/ IsDescribe(c) \/ IsPut(c)
        /\ IsGet(c) =>
              /\ c.name = c.pair
              /\ \A j \in 1..(i - 1) : calls[j].pair # c.pair
        /\ IsDescribe(c) =>
              /\ i > 1
              /\ IsGet(calls[i - 1]) /\ calls[i - 1].pair = c.pair
              /\ c.name = c.pair
        /\ IsPut(c) =>
              /\ i > 1
              /\ IsDescribe(calls[i - 1]) /\ calls[i - 1].pair = c.pair
              /\ c.name = oldToNewEnvName[c.pair]

\* C8 witness: a run has issued the three calls of one pair and then the
\* three calls of another.
C8_Witness ==
    /\ Len(calls) = 6
    /\ IsPut(calls[3]) /\ IsGet(calls[4]) /\ IsPut(calls[6])
    /\ calls[3].pair # calls[4].pair

\* C9: a pair an earlier run has migrated is processed like any other once
\* the loop yields it: the Get on its old name is issued, after a
\* successful Get the Describe on its old name, and after a successful
\* Describe the Put to its new name; a run that ends with status 0 has
\* issued the Put of every migrated pair; and no Put sets Overwrite.
C9_RerunRewrites ==
    /\ \A i \in CallIndices : IsPut(calls[i]) => calls[i].input.Overwrite = Nil
    /\ \A k \in migrated \cap visited :
          LET current == oldEnvName = Ptr(k) IN
          /\ \/ current /\ pc = "getParameterDetails"
             \/ \E i \in CallIndices : IsGet(calls[i]) /\ calls[i].name = k
          /\ (\E i \in CallIndices : GetSucceeded(calls[i]) /\ calls[i].name = k) =>
                \/ current /\ pc = "getParameterDescription"
                \/ \E i \in CallIndices : IsDescribe(calls[i]) /\ calls[i].name = k
          /\ (\E i \in CallIndices : DescribeSucceeded(calls[i]) /\ calls[i].name = k) =>
                \/ current /\ pc = "putParameter"
                \/ \E i \in CallIndices :
                      IsPut(calls[i]) /\ calls[i].pair = k
                                      /\ calls[i].name = oldToNewEnvName[k]
    /\ (pc = "done" /\ exitStatus = Ptr(0)) =>
          \A k \in migrated :
              \E i \in CallIndices : IsPut(calls[i]) /\ calls[i].pair = k

\* C9 witness: the second run has issued the Put of a pair the first run
\* had migrated, to a new name that was in the store when the run began.
C9_Witness ==
    /\ run = 2
    /\ \E i \in CallIndices :
          /\ IsPut(calls[i])
          /\ calls[i].pair \in migrated
          /\ storeAtStart[calls[i].name] # NoParam

\* C10: a run changes the store only at new names of the map whose Put was
\* acknowledged: no name appears or disappears, every old name and every
\* name outside the map's new names holds what it held when the run began,
\* and a destination whose Put was acknowledged holds what was put, also
\* after the run has failed on a later pair.
C10_Frame ==
    /\ DOMAIN store = DOMAIN storeAtStart
    /\ \A n \in DOMAIN store :
          /\ store[n] # storeAtStart[n] =>
                /\ n \in {ExpectedNew(v) : v \in Identifiers}
                /\ \E i \in CallIndices : PutSucceeded(calls[i]) /\ calls[i].name = n
          /\ n \in {ExpectedOld(ParamCandidates[j]) : j \in 1..Len(ParamCandidates)} =>
                store[n] = storeAtStart[n]
    /\ \A i \in CallIndices :
          PutSucceeded(calls[i]) =>
              store[calls[i].name] = [Value |-> Deref(calls[i].input.Value),
                                      Type |-> calls[i].input.Type,
                                      Description |-> calls[i].input.Description]

\* C10 witness: a run has written the destination of one pair and then
\* ended with status 1 on the other pair, the destination staying written.
C10_Witness ==
    /\ pc = "done"
    /\ exitStatus = Ptr(1)
    /\ \E i \in CallIndices :
          /\ PutSucceeded(calls[i])
          /\ store[calls[i].name] # storeAtStart[calls[i].name]
          /\ store[calls[i].name] # NoParam

====
